---- MODULE Spec2Model ----
(***************************************************************************)
(* State-machine model of the ChatWidget component                         *)
(* (src/src/components/chat/ChatWidget.tsx).                               *)
(*                                                                         *)
(* React state (useState hooks), the browser's localStorage, the pending   *)
(* continuations of handleSend (one per fetch that has not settled) and    *)
(* the pending revealNextChunk timers are the variables.  Every event      *)
(* handler, effect, promise continuation and timer callback is one action: *)
(* JavaScript runs each of them to completion, and React commits the state *)
(* updates of a handler before the next event is dispatched.               *)
(*                                                                         *)
(* Strings are TLA+ strings; trim, includes and length are computed on     *)
(* them.                                                                   *)
(*                                                                         *)
(* Date.now() is modelled by the rank of the clock reading: only equality  *)
(* of two readings is observable (through message ids).  Two successive    *)
(* readings may fall in the same millisecond, unless a timer that was set  *)
(* at or after the first of them has fired in between (every setTimeout    *)
(* delay of the reveal is at least 100 ms): `elapsed' records that, and a  *)
(* pending timer is `fresh' while no later millisecond has been read since *)
(* it was set.  The scrollToBottom timers only touch the DOM's scroll      *)
(* position and are not modelled.                                          *)
(***************************************************************************)
EXTENDS Integers, Sequences, FiniteSets, TLC

VARIABLES
    mounted,          \* the mount effects (lines 180-202) have run
    isMinimized,      \* useState(true), line 153
    messages,         \* useState<Message[]>([]), line 154
    inputValue,       \* useState(''), line 155
    isTyping,         \* useState(false), line 156
    sessionId,        \* useState(''), line 157
    windowWidth,      \* useState(window.innerWidth), line 158
    typingMessages,   \* useState<{[key]: TypingMessage}>({}), line 159
    messageFeedback,  \* useState<{[key]: MessageFeedback}>({}), line 160
    localStorage,     \* the browser's key-value store
    now,              \* rank of the latest clock reading (Date.now())
    elapsed,          \* a fresh timer has fired since that reading
    requests,         \* handleSend continuations awaiting fetch / json
    timers,           \* pending setTimeout(revealNextChunk, ...) closures
    fetchLog,         \* bodies of the fetch calls issued so far
    earlyReturn       \* handler whose last invocation hit its early return

vars == << mounted, isMinimized, messages, inputValue, isTyping, sessionId,
           windowWidth, typingMessages, messageFeedback, localStorage, now,
           elapsed, requests, timers, fetchLog, earlyReturn >>

----------------------------------------------------------------------------
(* Bounds of the model *)

\* user turns explored: a send is modelled while fewer than MaxTurns
\* requests have settled
MaxTurns == 1

\* longest response text of the reveal sweep (RevealSpec)
MaxTextLen == 305

----------------------------------------------------------------------------
(* Program constants *)

SESSION_ID_KEY == "reChatSessionId"

CONTEXT_KEY == "reChatContext"

MOBILE_BREAKPOINT == 768

\* chunk-count thresholds of startChunkedReveal
OneChunkBelow == 100

TwoChunksBelow == 300

\* shouldShowFeedback: "Skip very short responses"
MinFeedbackLength == 50

\* line 318; every non-ASCII character of the source literal is written "#"
\* (same number of UTF-16 code units: 159)
welcomeMessage == "Hello! I'm your AI assistant at Reykjav##k Excursions. I can help you with Flybus airport transfers, schedules, and bookings. What would you like to know? ####"

\* line 433
errorMessage == "I'm sorry, I'm having trouble connecting right now. Please try again in a moment."

----------------------------------------------------------------------------
(* String and map helpers (JavaScript built-ins) *)

Min(a, b) == IF a < b THEN a ELSE b

\* Math.ceil(a / b) for a >= 0, b > 0
Ceil(a, b) == (a + b - 1) \div b

Whitespace == {" ", "\t", "\n", "\r"}

RECURSIVE Trim(_)
\* String.prototype.trim
Trim(s) ==
    IF Len(s) = 0 THEN s
    ELSE IF SubSeq(s, 1, 1) \in Whitespace THEN Trim(SubSeq(s, 2, Len(s)))
    ELSE IF SubSeq(s, Len(s), Len(s)) \in Whitespace
         THEN Trim(SubSeq(s, 1, Len(s) - 1))
    ELSE s

\* String.prototype.includes
Includes(s, p) ==
    \E i \in 1..(Len(s) - Len(p) + 1) : SubSeq(s, i, i + Len(p) - 1) = p

RECURSIVE Rep(_, _)
\* String.prototype.repeat
Rep(s, n) ==
    IF n = 0 THEN ""
    ELSE LET half == Rep(s, n \div 2)
         IN  IF n % 2 = 0 THEN half \o half ELSE half \o half \o s

EmptyMap == [k \in {} |-> {}]

\* { ...m, [k]: v }
Put(m, k, v) == [x \in DOMAIN m \cup {k} |-> IF x = k THEN v ELSE m[x]]

\* { ...r, ...upd }
Merge(r, upd) ==
    [f \in DOMAIN r \cup DOMAIN upd |-> IF f \in DOMAIN upd THEN upd[f] ELSE r[f]]

Has(m, k) == k \in DOMAIN m

\* localStorage.getItem: "" stands for null (no stored session id is empty)
GetItem(k) == IF Has(localStorage, k) THEN localStorage[k] ELSE ""

RemoveAt(s, i) == SubSeq(s, 1, i - 1) \o SubSeq(s, i + 1, Len(s))

----------------------------------------------------------------------------
(* Inputs *)

\* viewport widths (window.innerWidth)
Widths == {768, 769}

\* what the user may have typed into the input field
InputValues == {"", "  ", " Hi "}

\* Math.random().toString(36).slice(2, 11)
RandomSuffixes == {"k3x9f"}

\* session ids found in storage at page load ("" : none stored)
StoredSessions == {"", "s0"}

LongText == Rep("0123456789", 12)

\* ChatContext objects the server may return
\* (a nullable field is <<>> for null and <<v>> for the value v)
Contexts == { [lastTopic |-> <<"flybus">>, flightTime |-> <<>>,
               flightDestination |-> <<>>, lastServiceType |-> <<>>,
               isGroupBooking |-> FALSE, groupDetails |-> <<>>,
               lastQuery |-> <<"Hi">>] }

\* bodies the server may answer with: message, optional sessionId, optional
\* context
Responses ==
    LET c == CHOOSE x \in Contexts : TRUE IN
    { [message |-> ""],
      [message |-> "Yes.", sessionId |-> "s0"],
      [message |-> LongText, sessionId |-> "s1", context |-> c] }

----------------------------------------------------------------------------
(* Pure functions of the component *)

\* const isMobile = windowWidth <= MOBILE_BREAKPOINT
IsMobile(width) == width <= MOBILE_BREAKPOINT

\* `session_${Date.now()}_${Math.random().toString(36).slice(2, 11)}`
generateSessionId(t, suffix) == "session_" \o ToString(t) \o "_" \o suffix

JsonString(v) == IF v = <<>> THEN "null" ELSE "\"" \o v[1] \o "\""

JsonGroup(v) ==
    IF v = <<>> THEN "null"
    ELSE "{\"adults\":" \o ToString(v[1].adults)
         \o ",\"youths\":" \o ToString(v[1].youths)
         \o ",\"children\":" \o ToString(v[1].children) \o "}"

\* JSON.stringify(data.context)
Stringify(c) ==
    "{\"lastTopic\":" \o JsonString(c.lastTopic)
    \o ",\"flightTime\":" \o JsonString(c.flightTime)
    \o ",\"flightDestination\":" \o JsonString(c.flightDestination)
    \o ",\"lastServiceType\":" \o JsonString(c.lastServiceType)
    \o ",\"isGroupBooking\":" \o (IF c.isGroupBooking THEN "true" ELSE "false")
    \o ",\"groupDetails\":" \o JsonGroup(c.groupDetails)
    \o ",\"lastQuery\":" \o JsonString(c.lastQuery) \o "}"

\* (variant: <= for <)
NumberOfChunks_OffByOne(len) ==
    IF len <= OneChunkBelow THEN 1
    ELSE IF len <= TwoChunksBelow THEN 2
    ELSE 3

\* startChunkedReveal: numberOfChunks from the text length
NumberOfChunks(len) ==
    IF len < OneChunkBelow THEN 1
    ELSE IF len < TwoChunksBelow THEN 2
    ELSE 3

\* const chunkSize = Math.ceil(fullText.length / numberOfChunks)
ChunkSize(len) == Ceil(len, NumberOfChunks(len))

\* (variant: no Math.min)
CharsToReveal_NoMin(currentChunk, chunkSize, len) ==
    (currentChunk + 1) * chunkSize

\* revealNextChunk: Math.min((currentChunk + 1) * chunkSize, fullText.length)
CharsToReveal(currentChunk, chunkSize, len) ==
    Min((currentChunk + 1) * chunkSize, len)

\* startSimpleRender: the entry it stores
StartSimpleRender(tm, messageId, fullText) ==
    Put(tm, messageId,
        [text |-> fullText, visibleChars |-> Len(fullText),
         isComplete |-> TRUE, fadeIn |-> TRUE])

\* startChunkedReveal: the entry it stores
StartChunkedReveal(tm, messageId, fullText) ==
    Put(tm, messageId,
        [text |-> fullText, visibleChars |-> 0, currentChunk |-> 0,
         totalChunks |-> NumberOfChunks(Len(fullText)),
         isComplete |-> FALSE, fadeIn |-> TRUE])

\* startChunkedReveal: the closure handed to setTimeout(revealNextChunk, 100)
RevealTimer(messageId, fullText) ==
    [messageId |-> messageId, fullText |-> fullText,
     numberOfChunks |-> NumberOfChunks(Len(fullText)),
     chunkSize |-> ChunkSize(Len(fullText)),
     currentChunk |-> 0, fresh |-> TRUE]

\* (variant: narrow viewports get no reveal-state entry)
RenderTyping_NoSimple(tm, messageId, fullText, mobile) ==
    IF fullText = "" \/ mobile THEN tm
    ELSE StartChunkedReveal(tm, messageId, fullText)

\* renderMessage: its effect on typingMessages (mobile is the isMobile the
\* calling closure captured)
RenderTyping(tm, messageId, fullText, mobile) ==
    IF fullText = "" THEN tm
    ELSE IF mobile THEN StartSimpleRender(tm, messageId, fullText)
    ELSE StartChunkedReveal(tm, messageId, fullText)

\* (variant: the first reveal step is never scheduled)
RenderTimers_NoTimeout(ts, messageId, fullText, mobile) == ts

\* renderMessage: its effect on the pending timers
RenderTimers(ts, messageId, fullText, mobile) ==
    IF fullText = "" \/ mobile THEN ts
    ELSE Append(ts, RevealTimer(messageId, fullText))

\* (variant: the welcome message is not skipped)
shouldShowFeedback_NoWelcomeSkip(message) ==
    /\ message.content # ""
    /\ ~Includes(message.content, "I'm sorry, I'm having trouble")
    /\ ~(Len(message.content) < MinFeedbackLength)

shouldShowFeedback(message) ==
    /\ message.content # ""
    /\ ~Includes(message.content, "I'm your AI assistant")
    /\ ~Includes(message.content, "I'm sorry, I'm having trouble")
    /\ ~(Len(message.content) < MinFeedbackLength)

\* the condition under which the feedback block of a message is rendered
FeedbackOffered(msg) ==
    /\ msg.type = "bot"
    /\ msg.id # ""
    /\ Has(typingMessages, msg.id)
    /\ typingMessages[msg.id].isComplete
    /\ shouldShowFeedback(msg)

\* (variant: the isTyping latch is not consulted)
SendRejected_NoLatch(input, typing) == Trim(input) = ""

\* (variant: the input is tested without trim())
SendRejected_NoTrim(input, typing) == input = "" \/ typing

\* handleSend, first line: if (!inputValue.trim() || isTyping) return
SendRejected(input, typing) == Trim(input) = "" \/ typing

\* (variant: no early return)
FeedbackRejected_Never(fb, messageId) == FALSE

\* handleMessageFeedback, first line: if (messageFeedback[messageId]) return
FeedbackRejected(fb, messageId) == Has(fb, messageId)

\* if (data.sessionId && data.sessionId !== sessionId)
AdoptsSession(data, closureSessionId) ==
    /\ Has(data, "sessionId")
    /\ data.sessionId # ""
    /\ data.sessionId # closureSessionId

\* readings Date.now() may give: the millisecond of the previous reading
\* (unless time is known to have passed), or a later one
ClockReadings == IF elapsed THEN {now + 1} ELSE {now, now + 1}

\* the pending timers once the clock has been read as t: a later millisecond
\* leaves none of them fresh
Aged(ts, t) ==
    IF t > now THEN [i \in DOMAIN ts |-> [ts[i] EXCEPT !.fresh = FALSE]] ELSE ts

----------------------------------------------------------------------------
(* Initial state: the component as constructed, before its mount effects *)

Init ==
    /\ mounted = FALSE
    /\ isMinimized = TRUE
    /\ messages = <<>>
    /\ inputValue = ""
    /\ isTyping = FALSE
    /\ sessionId = ""
    /\ windowWidth \in Widths
    /\ typingMessages = EmptyMap
    /\ messageFeedback = EmptyMap
    /\ \E s \in StoredSessions :
          localStorage = IF s = "" THEN EmptyMap ELSE Put(EmptyMap, SESSION_ID_KEY, s)
    /\ now = 0
    /\ elapsed = FALSE
    /\ requests = <<>>
    /\ timers = <<>>
    /\ fetchLog = <<>>
    /\ earlyReturn = "none"

----------------------------------------------------------------------------
(* Actions *)

\* (variant: a new id is generated on every mount)
InitialSession_AlwaysNew(existing, generated) == generated

\* initializeSession: the id handed to setSessionId
InitialSession(existing, generated) ==
    IF existing = "" THEN generated ELSE existing

\* mount effects: initializeSession (the resize listener and the context
\* check change no state).  A generated id takes the first clock reading.
Mount ==
    /\ ~mounted
    /\ mounted' = TRUE
    /\ \E suffix \in RandomSuffixes :
          LET existing == GetItem(SESSION_ID_KEY)
              sid == InitialSession(existing, generateSessionId(now, suffix))
          IN  /\ localStorage' = IF existing = ""
                                 THEN Put(localStorage, SESSION_ID_KEY, sid)
                                 ELSE localStorage
              /\ sessionId' = sid
    /\ earlyReturn' = "none"
    /\ UNCHANGED << isMinimized, messages, inputValue, isTyping, windowWidth,
                    typingMessages, messageFeedback, now, elapsed, requests,
                    timers, fetchLog >>

\* (variant: the effect fires whenever the widget is expanded)
WelcomeFires_NoEmptyTest(minimized) == ~minimized

\* welcome effect, run after a render with the given isMinimized / width
WelcomeFires(minimized) == ~minimized /\ messages = <<>>

WelcomeId == "welcome-" \o ToString(now)

\* (variant: the transcript is not tested for emptiness)
WelcomeMessages_Reset(minimized) ==
    IF ~minimized
    THEN << [type |-> "bot", content |-> welcomeMessage, id |-> WelcomeId] >>
    ELSE messages

WelcomeMessages(minimized) ==
    IF WelcomeFires(minimized)
    THEN << [type |-> "bot", content |-> welcomeMessage, id |-> WelcomeId] >>
    ELSE messages

WelcomeTyping(minimized, width) ==
    IF WelcomeFires(minimized)
    THEN RenderTyping(typingMessages, WelcomeId, welcomeMessage, IsMobile(width))
    ELSE typingMessages

WelcomeTimers(minimized, width) ==
    IF WelcomeFires(minimized)
    THEN RenderTimers(timers, WelcomeId, welcomeMessage, IsMobile(width))
    ELSE timers

\* (variant: the header click only expands)
Toggled_ExpandOnly(minimized) == FALSE

\* header onClick: the value handed to setIsMinimized, !isMinimized
Toggled(minimized) == ~minimized

\* header onClick: setIsMinimized(!isMinimized), then the welcome effect
ToggleMinimize ==
    /\ mounted
    /\ isMinimized' = Toggled(isMinimized)
    /\ messages' = WelcomeMessages(Toggled(isMinimized))
    /\ typingMessages' = WelcomeTyping(Toggled(isMinimized), windowWidth)
    /\ timers' = WelcomeTimers(Toggled(isMinimized), windowWidth)
    /\ earlyReturn' = "none"
    /\ UNCHANGED << mounted, inputValue, isTyping, sessionId, windowWidth,
                    messageFeedback, localStorage, now, elapsed, requests,
                    fetchLog >>

\* handleResize: setWindowWidth(window.innerWidth); renderMessage is
\* re-created, so the welcome effect runs again
HandleResize(w) ==
    /\ mounted
    /\ w # windowWidth
    /\ windowWidth' = w
    /\ messages' = WelcomeMessages(isMinimized)
    /\ typingMessages' = WelcomeTyping(isMinimized, w)
    /\ timers' = WelcomeTimers(isMinimized, w)
    /\ earlyReturn' = "none"
    /\ UNCHANGED << mounted, isMinimized, inputValue, isTyping, sessionId,
                    messageFeedback, localStorage, now, elapsed, requests,
                    fetchLog >>

\* input onChange: setInputValue(e.target.value)
SetInput(v) ==
    /\ mounted
    /\ ~isMinimized
    /\ v # inputValue
    /\ inputValue' = v
    /\ earlyReturn' = "none"
    /\ UNCHANGED << mounted, isMinimized, messages, isTyping, sessionId,
                    windowWidth, typingMessages, messageFeedback, localStorage,
                    now, elapsed, requests, timers, fetchLog >>

\* (variant: the request is issued a second time)
IssueRequest_Twice(log, messageText, closureSessionId) ==
    Append(Append(log, [message |-> messageText, sessionId |-> closureSessionId]),
           [message |-> messageText, sessionId |-> closureSessionId])

\* fetch(..., { body: JSON.stringify({ message: messageText, sessionId }) }):
\* the log of issued requests after the call
IssueRequest(log, messageText, closureSessionId) ==
    Append(log, [message |-> messageText, sessionId |-> closureSessionId])

\* handleSend up to its first await, explored while fewer than `turns'
\* requests have settled.  The clock reading taken here only names the user
\* message (no map is keyed by it), so it is the millisecond of the previous
\* reading whenever that is possible.
Send(turns) ==
    /\ mounted
    /\ ~isMinimized
    /\ IF SendRejected(inputValue, isTyping)
       THEN /\ earlyReturn' = "handleSend"
            /\ UNCHANGED << messages, inputValue, isTyping, requests, fetchLog,
                            now, elapsed, timers >>
       ELSE \E t \in {IF elapsed THEN now + 1 ELSE now} :
            LET messageText == Trim(inputValue) IN
            /\ Len(fetchLog) - Len(requests) < turns
            /\ inputValue' = ""
            /\ messages' = Append(messages,
                   [type |-> "user", content |-> messageText,
                    id |-> "user-" \o ToString(t), timestamp |-> t])
            /\ now' = t
            /\ elapsed' = FALSE
            /\ timers' = Aged(timers, t)
            /\ isTyping' = TRUE
            /\ fetchLog' = IssueRequest(fetchLog, messageText, sessionId)
            /\ requests' = Append(requests,
                   [message |-> messageText, sessionId |-> sessionId,
                    isMobile |-> IsMobile(windowWidth)])
            /\ earlyReturn' = "none"
    /\ UNCHANGED << mounted, isMinimized, sessionId, windowWidth,
                    typingMessages, messageFeedback, localStorage >>

\* handleSend (onKeyPress Enter, Send button)
HandleSend == Send(MaxTurns)

\* (variant: the error is logged and nothing is shown)
AppendError_Swallowed(msgs, errorMsgId) == msgs

\* (variant: the apology is appended twice)
AppendError_Twice(msgs, errorMsgId) ==
    Append(Append(msgs, [type |-> "bot", content |-> errorMessage, id |-> errorMsgId]),
           [type |-> "bot", content |-> errorMessage, id |-> errorMsgId])

\* catch block: setMessages(prev => [...prev, { type: 'bot', content:
\* errorMessage, id: errorMsgId }])
AppendError(msgs, errorMsgId) ==
    Append(msgs, [type |-> "bot", content |-> errorMessage, id |-> errorMsgId])

\* (variant: no finally)
SettledTyping_Stuck == isTyping

\* finally { setIsTyping(false) }: the value isTyping takes when the
\* request settles
SettledTyping == FALSE

\* catch block and finally of handleSend, for the continuation requests[i]
CatchBlock(i, t) ==
    LET req == requests[i]
        errorMsgId == "error-" \o ToString(t)
    IN  /\ messages' = AppendError(messages, errorMsgId)
        /\ typingMessages' =
               RenderTyping(typingMessages, errorMsgId, errorMessage, req.isMobile)
        /\ timers' =
               RenderTimers(Aged(timers, t), errorMsgId, errorMessage, req.isMobile)
        /\ isTyping' = SettledTyping
        /\ requests' = RemoveAt(requests, i)
        /\ now' = t
        /\ elapsed' = FALSE
        /\ earlyReturn' = "none"
        /\ UNCHANGED << mounted, isMinimized, inputValue, sessionId, windowWidth,
                        messageFeedback, localStorage, fetchLog >>

\* the request fails: fetch rejects (transport error), resolves with a
\* non-2xx status (throw new Error), or response.json() rejects
RequestFails(i) ==
    \E t \in ClockReadings : CatchBlock(i, t)

\* (variant: setSessionId is not called)
SessionAfter_NotAdopted(data, closureSessionId) == sessionId

\* sessionId after the success path: setSessionId(data.sessionId) under the
\* test of line 411
SessionAfter(data, closureSessionId) ==
    IF AdoptsSession(data, closureSessionId) THEN data.sessionId ELSE sessionId

\* (variant: the adopted session id is not persisted)
StorageAfter_NoPersist(data, closureSessionId) ==
    IF Has(data, "context")
    THEN Put(localStorage, CONTEXT_KEY, Stringify(data.context))
    ELSE localStorage

\* (variant: data.context is stored without testing that it is present)
StorageAfter_NoContextTest(data, closureSessionId) ==
    LET s1 == IF AdoptsSession(data, closureSessionId)
              THEN Put(localStorage, SESSION_ID_KEY, data.sessionId)
              ELSE localStorage
    IN  Put(s1, CONTEXT_KEY,
            IF Has(data, "context") THEN Stringify(data.context) ELSE "undefined")

\* localStorage after the success path
StorageAfter(data, closureSessionId) ==
    LET s1 == IF AdoptsSession(data, closureSessionId)
              THEN Put(localStorage, SESSION_ID_KEY, data.sessionId)
              ELSE localStorage
    IN  IF Has(data, "context")
        THEN Put(s1, CONTEXT_KEY, Stringify(data.context))
        ELSE s1

\* fetch resolves with response.ok and response.json() resolves with data:
\* the success path and finally
RequestSucceeds(i, data) ==
    /\ \E t \in ClockReadings :
          LET req == requests[i]
              botMsgId == "bot-" \o ToString(t)
          IN  /\ sessionId' = SessionAfter(data, req.sessionId)
              /\ localStorage' = StorageAfter(data, req.sessionId)
              /\ messages' = Append(messages,
                     [type |-> "bot", content |-> data.message,
                      id |-> botMsgId, timestamp |-> t])
              /\ typingMessages' =
                     RenderTyping(typingMessages, botMsgId, data.message, req.isMobile)
              /\ timers' =
                     RenderTimers(Aged(timers, t), botMsgId, data.message, req.isMobile)
              /\ now' = t
              /\ elapsed' = FALSE
    /\ isTyping' = SettledTyping
    /\ requests' = RemoveAt(requests, i)
    /\ earlyReturn' = "none"
    /\ UNCHANGED << mounted, isMinimized, inputValue, windowWidth,
                    messageFeedback, fetchLog >>

\* the timer callback revealNextChunk of the closure timers[i]; it runs at
\* least 100 ms after it was set
RevealNextChunk(i) ==
    LET tmr == timers[i]
        charsToReveal ==
            CharsToReveal(tmr.currentChunk, tmr.chunkSize, Len(tmr.fullText))
    IN  /\ tmr.currentChunk < tmr.numberOfChunks
        /\ typingMessages' = Put(typingMessages, tmr.messageId,
               Merge(typingMessages[tmr.messageId],
                     [visibleChars |-> charsToReveal,
                      currentChunk |-> tmr.currentChunk + 1,
                      isComplete |-> (charsToReveal = Len(tmr.fullText))]))
        /\ timers' = IF tmr.currentChunk + 1 < tmr.numberOfChunks
                     THEN [timers EXCEPT ![i].currentChunk = tmr.currentChunk + 1,
                                         ![i].fresh = TRUE]
                     ELSE RemoveAt(timers, i)
        /\ elapsed' = (elapsed \/ tmr.fresh)
        /\ earlyReturn' = "none"
        /\ UNCHANGED << mounted, isMinimized, messages, inputValue, isTyping,
                        sessionId, windowWidth, messageFeedback, localStorage,
                        now, requests, fetchLog >>

\* handleMessageFeedback(msg.id, isPositive), invoked on a message whose
\* feedback block is rendered
HandleMessageFeedback(k, isPositive) ==
    /\ mounted
    /\ ~isMinimized
    /\ FeedbackOffered(messages[k])
    /\ LET messageId == messages[k].id IN
       IF FeedbackRejected(messageFeedback, messageId)
       THEN /\ earlyReturn' = "handleMessageFeedback"
            /\ UNCHANGED messageFeedback
       ELSE /\ messageFeedback' = Put(messageFeedback, messageId,
                   [isPositive |-> isPositive, submitted |-> TRUE])
            /\ earlyReturn' = "none"
    /\ UNCHANGED << mounted, isMinimized, messages, inputValue, isTyping,
                    sessionId, windowWidth, typingMessages, localStorage, now,
                    elapsed, requests, timers, fetchLog >>

Next ==
    \/ Mount
    \/ ToggleMinimize
    \/ \E w \in Widths : HandleResize(w)
    \/ \E v \in InputValues : SetInput(v)
    \/ HandleSend
    \/ \E i \in 1..Len(requests) : RequestFails(i)
    \/ \E i \in 1..Len(requests), data \in Responses : RequestSucceeds(i, data)
    \/ \E i \in 1..Len(timers) : RevealNextChunk(i)
    \/ \E k \in 1..Len(messages), isPositive \in BOOLEAN :
          HandleMessageFeedback(k, isPositive)

Spec == Init /\ [][Next]_vars

\* a pending request settles, one way or the other
Settle ==
    \E i \in 1..Len(requests) :
        \/ RequestFails(i)
        \/ \E data \in Responses : RequestSucceeds(i, data)

\* Spec, with every request eventually settling
FairSpec == Spec /\ WF_vars(Settle)

\* a pending revealNextChunk timer fires
Tick == \E i \in 1..Len(timers) : RevealNextChunk(i)

\* Spec, with the browser's event loop eventually running a timer callback
\* that is due
TimerFairSpec == Spec /\ WF_vars(Tick)

----------------------------------------------------------------------------
(* One more user turn than MaxTurns *)

FollowUpNext ==
    \/ Next
    \/ Send(MaxTurns + 1)

FollowUpSpec == Init /\ [][FollowUpNext]_vars

----------------------------------------------------------------------------
(* Page reloads: successive widget instances over one localStorage *)

\* the page is loaded again: a new component instance is constructed, the
\* pending continuations and timers of the old one are gone, localStorage and
\* the window stay.  The request log is that of the current instance.  The
\* clock rank restarts: no id of the old instance survives except the stored
\* session id, and no new session id is generated when one is stored.
Reload ==
    /\ mounted
    /\ mounted' = FALSE
    /\ isMinimized' = TRUE
    /\ messages' = <<>>
    /\ inputValue' = ""
    /\ isTyping' = FALSE
    /\ sessionId' = ""
    /\ typingMessages' = EmptyMap
    /\ messageFeedback' = EmptyMap
    /\ now' = 0
    /\ elapsed' = FALSE
    /\ requests' = <<>>
    /\ timers' = <<>>
    /\ fetchLog' = <<>>
    /\ earlyReturn' = "none"
    /\ UNCHANGED << windowWidth, localStorage >>

PageNext ==
    \/ Next
    \/ Reload

PageSpec == Init /\ [][PageNext]_vars

----------------------------------------------------------------------------
(* The reveal of one response, over every text length up to MaxTextLen *)

\* the widget after: mount with empty storage, the header click that opens
\* it at width w, the welcome reveal run to its end, " Hi " typed and sent
RevealStart(w) ==
    LET sid == generateSessionId(0, CHOOSE x \in RandomSuffixes : TRUE)
        t == IF IsMobile(w) THEN 0 ELSE 1
        welcomeEntry ==
            IF IsMobile(w)
            THEN [text |-> welcomeMessage, visibleChars |-> Len(welcomeMessage),
                  isComplete |-> TRUE, fadeIn |-> TRUE]
            ELSE [text |-> welcomeMessage, visibleChars |-> Len(welcomeMessage),
                  currentChunk |-> 2, totalChunks |-> 2,
                  isComplete |-> TRUE, fadeIn |-> TRUE]
    IN  /\ mounted = TRUE
        /\ isMinimized = FALSE
        /\ messages = << [type |-> "bot", content |-> welcomeMessage,
                           id |-> "welcome-0"],
                         [type |-> "user", content |-> "Hi",
                           id |-> "user-" \o ToString(t), timestamp |-> t] >>
        /\ inputValue = ""
        /\ isTyping = TRUE
        /\ sessionId = sid
        /\ windowWidth = w
        /\ typingMessages = Put(EmptyMap, "welcome-0", welcomeEntry)
        /\ messageFeedback = EmptyMap
        /\ localStorage = Put(EmptyMap, SESSION_ID_KEY, sid)
        /\ now = t
        /\ elapsed = FALSE
        /\ requests = << [message |-> "Hi", sessionId |-> sid,
                           isMobile |-> IsMobile(w)] >>
        /\ timers = <<>>
        /\ fetchLog = << [message |-> "Hi", sessionId |-> sid] >>
        /\ earlyReturn = "none"

RevealInit == \E w \in Widths : RevealStart(w)

\* response bodies of the sweep: one text of every length 1..MaxTextLen
SweepResponses == { [message |-> Rep("a", n)] : n \in 1..MaxTextLen }

RevealNext ==
    \/ \E i \in 1..Len(requests), data \in SweepResponses :
          RequestSucceeds(i, data)
    \/ \E i \in 1..Len(timers) : RevealNextChunk(i)
    \/ ToggleMinimize
    \/ \E w \in Widths : HandleResize(w)

RevealSpec == RevealInit /\ [][RevealNext]_vars

----------------------------------------------------------------------------
(* Claims *)

\* a step that is an invocation of handleSend
SendStep == HandleSend

Blank(s) == \A i \in 1..Len(s) : SubSeq(s, i, i) \in Whitespace

\* C1: a send attempted while a request is in flight appends no user
\* message and issues no request, and at most one chat request is in flight
\* in every reachable state.
C1_SendWhileInFlightIsNoOp ==
    /\ [](Len(requests) <= 1)
    /\ [][(SendStep /\ requests # <<>>) =>
            UNCHANGED << messages, fetchLog, requests >>]_vars

\* C1 witness: handleSend has just returned early on a non-blank input while
\* a request was in flight.
C1_Witness ==
    /\ earlyReturn = "handleSend"
    /\ Len(requests) = 1
    /\ ~Blank(inputValue)

\* C2: a send whose input is empty or whitespace-only appends no user
\* message, issues no network call, and leaves the transcript, the typing
\* flag, the input value, the session identifier and both storage keys
\* unchanged.
C2_BlankSendChangesNothing ==
    [][(SendStep /\ Blank(inputValue)) =>
          UNCHANGED << messages, fetchLog, requests, isTyping, inputValue,
                       sessionId, localStorage >>]_vars

\* C2 witness: handleSend has just returned early on a whitespace-only,
\* non-empty input while no request was in flight.
C2_Witness ==
    /\ earlyReturn = "handleSend"
    /\ ~isTyping
    /\ inputValue # ""
    /\ Blank(inputValue)

Last(seq) == seq[Len(seq)]

\* a step in which a request fails
FailureStep == \E i \in 1..Len(requests) : RequestFails(i)

\* C3: on a failed request exactly one bot message carrying the fixed
\* apology text is appended to the transcript, and the typing flag returns
\* to false.
C3_FailureAppendsOneApology ==
    [][FailureStep =>
          /\ Len(messages') = Len(messages) + 1
          /\ SubSeq(messages', 1, Len(messages)) = messages
          /\ Last(messages').type = "bot"
          /\ Last(messages').content =
                "I'm sorry, I'm having trouble connecting right now. Please try again in a moment."
          /\ isTyping
          /\ ~isTyping']_vars

\* C3 witness: a request has failed; the apology closes the transcript and
\* the typing flag is down.
C3_Witness ==
    /\ messages # <<>>
    /\ Last(messages).type = "bot"
    /\ Last(messages).content = errorMessage
    /\ fetchLog # <<>>
    /\ ~isTyping

\* the bot message a success step appends for the body data
BotAppended(data) ==
    /\ Len(messages') = Len(messages) + 1
    /\ SubSeq(messages', 1, Len(messages)) = messages
    /\ Last(messages').type = "bot"
    /\ Last(messages').content = data.message

\* C4 as claimed: on every successful response a bot message with the
\* response text is appended and a reveal-state entry keyed by its id exists
\* afterwards.
C4_Original ==
    [][\A i \in 1..Len(requests), data \in Responses :
          RequestSucceeds(i, data) =>
              /\ BotAppended(data)
              /\ Has(typingMessages', Last(messages').id)]_vars

\* C4 (amended): on every successful response a bot message with the
\* response text is appended; when that text is non-empty its reveal is
\* started (an entry for that text is stored under the message's id), and
\* when it is empty renderMessage stores nothing.
C4_SuccessAppendsAndReveals ==
    [][\A i \in 1..Len(requests), data \in Responses :
          RequestSucceeds(i, data) =>
              /\ BotAppended(data)
              /\ data.message # "" =>
                    /\ Has(typingMessages', Last(messages').id)
                    /\ typingMessages'[Last(messages').id].text = data.message
              /\ data.message = "" => typingMessages' = typingMessages]_vars

\* C4 witness: a non-empty response has been appended and its reveal-state
\* entry exists.
C4_Witness ==
    /\ messages # <<>>
    /\ Last(messages).type = "bot"
    /\ Last(messages).content \in {"Yes.", LongText}
    /\ Has(typingMessages, Last(messages).id)
    /\ typingMessages[Last(messages).id].text = Last(messages).content

StoredSession == GetItem(SESSION_ID_KEY)

\* C5: a successful response whose sessionId is non-empty and differs from
\* the current one makes both the in-memory and the stored session id the
\* new value; when it is absent or equal to the current one neither changes.
C5_SessionAdoption ==
    [][\A i \in 1..Len(requests), data \in Responses :
          RequestSucceeds(i, data) =>
              IF /\ "sessionId" \in DOMAIN data
                 /\ data.sessionId # ""
                 /\ data.sessionId # sessionId
              THEN /\ sessionId' = data.sessionId
                   /\ SESSION_ID_KEY \in DOMAIN localStorage'
                   /\ localStorage'[SESSION_ID_KEY] = data.sessionId
              ELSE /\ sessionId' = sessionId
                   /\ SESSION_ID_KEY \in DOMAIN localStorage'
                   /\ localStorage'[SESSION_ID_KEY] = StoredSession]_vars

\* C5 witness: the server's session id "s1" has replaced the one the widget
\* started with, in memory and in storage.
C5_Witness ==
    /\ sessionId = "s1"
    /\ StoredSession = "s1"
    /\ fetchLog # <<>>
    /\ fetchLog[1].sessionId # "s1"

\* C8: feedback stored for an id is never overwritten or removed, and its
\* submitted flag is true; a repeated submission changes nothing.
C8_FeedbackWrittenOnce ==
    /\ [](\A id \in DOMAIN messageFeedback : messageFeedback[id].submitted)
    /\ [][\A id \in DOMAIN messageFeedback :
             /\ id \in DOMAIN messageFeedback'
             /\ messageFeedback'[id] = messageFeedback[id]]_vars

\* C8 witness: handleMessageFeedback has just been invoked for an id that
\* already had feedback.
C8_Witness ==
    /\ earlyReturn = "handleMessageFeedback"
    /\ messageFeedback # EmptyMap

\* C10: a bot message is offered feedback controls only if its reveal-state
\* entry exists and is marked complete, and its content is neither the
\* welcome message nor the apology and is at least 50 characters long.
C10_FeedbackOnlyWhenEligible ==
    \A k \in 1..Len(messages) :
        FeedbackOffered(messages[k]) =>
            /\ messages[k].id \in DOMAIN typingMessages
            /\ typingMessages[messages[k].id].isComplete
            /\ messages[k].content # welcomeMessage
            /\ messages[k].content # errorMessage
            /\ Len(messages[k].content) >= 50

\* C10 witness: feedback controls are offered for one message, while a
\* completely revealed welcome message, and an apology or a short answer,
\* are in the transcript without them.
C10_Witness ==
    /\ \E k \in 1..Len(messages) : FeedbackOffered(messages[k])
    /\ \E k \in 1..Len(messages) :
          /\ messages[k].content = welcomeMessage
          /\ Has(typingMessages, messages[k].id)
          /\ typingMessages[messages[k].id].isComplete

\* the ids whose reveal-state entry was created by the chunked strategy
ChunkedIds ==
    { id \in DOMAIN typingMessages : "totalChunks" \in DOMAIN typingMessages[id] }

\* a revealNextChunk timer is pending for id
PendingFor(id) == \E i \in 1..Len(timers) : timers[i].messageId = id

ExpectedChunks(n) == IF n < 100 THEN 1 ELSE IF n < 300 THEN 2 ELSE 3

\* C6: the chunked strategy uses 1 chunk below 100 characters, 2 in
\* [100,300) and 3 from 300 on, and performs exactly that many timed reveal
\* steps: a step is pending exactly while fewer have run, and a text shorter
\* than 100 characters is complete after the first.
C6_ChunkCountAndSteps ==
    \A id \in ChunkedIds :
        LET e == typingMessages[id]
            n == Len(e.text)
        IN  /\ e.totalChunks = ExpectedChunks(n)
            /\ e.currentChunk \in 0..ExpectedChunks(n)
            /\ PendingFor(id) <=> e.currentChunk < ExpectedChunks(n)
            /\ (n < 100 /\ e.currentChunk >= 1) => e.isComplete
            /\ e.currentChunk = ExpectedChunks(n) => e.visibleChars = n

\* C6 witness: a text of 250 characters has been revealed in 2 steps, with
\* no step pending and all of it visible.
C6_Witness ==
    \E id \in ChunkedIds :
        /\ Len(typingMessages[id].text) = 250
        /\ typingMessages[id].currentChunk = 2
        /\ typingMessages[id].visibleChars = 250
        /\ ~PendingFor(id)

\* ceil(n / c), by its defining property
CeilDiv(n, c) == CHOOSE q \in 0..n : q * c >= n /\ (q - 1) * c < n

\* C7: after the k-th reveal step the visible count is
\* min(k * ceil(length / chunks), length); it never exceeds the length and
\* never decreases; the message is marked complete exactly when the visible
\* count equals the length, which happens at the final step and no earlier.
C7_VisibleCount ==
    /\ [](\A id \in ChunkedIds :
            LET e == typingMessages[id]
                n == Len(e.text)
                k == e.currentChunk
                full == k * CeilDiv(n, e.totalChunks)
            IN  /\ e.visibleChars = (IF full < n THEN full ELSE n)
                /\ e.visibleChars <= n
                /\ e.isComplete <=> e.visibleChars = n
                /\ e.visibleChars = n <=> k = e.totalChunks)
    /\ [][\A id \in ChunkedIds :
             /\ id \in DOMAIN typingMessages'
             /\ typingMessages'[id].visibleChars >= typingMessages[id].visibleChars]_vars

\* C7 witness: a three-chunk reveal after its second step, with
\* 2 * ceil(length / 3) characters visible and not yet complete.
C7_Witness ==
    \E id \in ChunkedIds :
        LET e == typingMessages[id] IN
        /\ e.totalChunks = 3
        /\ e.currentChunk = 2
        /\ e.visibleChars = 2 * CeilDiv(Len(e.text), 3)
        /\ e.visibleChars < Len(e.text)
        /\ ~e.isComplete

\* C9: the typing flag is true exactly while a chat request is in flight,
\* and, every request eventually settling, it always returns to false.
C9_TypingWhileInFlight ==
    /\ [](isTyping <=> requests # <<>>)
    /\ (isTyping ~> ~isTyping)

\* C9 witness: a request was issued and has settled, and the flag is down.
C9_Witness ==
    /\ fetchLog # <<>>
    /\ requests = <<>>
    /\ ~isTyping

\* C11: on mount, a stored session identifier is adopted and storage is not
\* written; with none stored, a new identifier is generated, written to
\* storage and adopted.  Once a mount has run the stored identifier is never
\* empty again, so every later mount over the same storage adopts the
\* stored identifier.
C11_SessionInitOnMount ==
    /\ [][Mount =>
            IF StoredSession # ""
            THEN /\ sessionId' = StoredSession
                 /\ localStorage' = localStorage
            ELSE /\ \E suffix \in RandomSuffixes :
                       sessionId' = "session_" \o ToString(now) \o "_" \o suffix
                 /\ localStorage' = Put(localStorage, SESSION_ID_KEY, sessionId')]_vars
    /\ [][mounted => StoredSession' # ""]_vars
    /\ [][Reload => localStorage' = localStorage]_vars

\* C11 witness: a later instance, which has issued no request, has mounted
\* and holds the identifier "s1" that an earlier instance stored.
C11_Witness ==
    /\ mounted
    /\ fetchLog = <<>>
    /\ sessionId = "s1"
    /\ StoredSession = "s1"

\* the user messages of the transcript, in order
UserMessages == SelectSeq(messages, LAMBDA m : m.type = "user")

\* C12: the number of chat requests issued so far equals the number of user
\* messages in the transcript; the j-th request carries the text of the j-th
\* user message, which is trimmed and not empty; a request is issued only by
\* an accepted send, one at a time, with the trimmed input and the session
\* identifier current at that moment; issued requests are never re-issued.
C12_OneRequestPerSend ==
    /\ [](/\ Len(fetchLog) = Len(UserMessages)
          /\ \A j \in 1..Len(fetchLog) :
                /\ fetchLog[j].message = UserMessages[j].content
                /\ fetchLog[j].message # ""
                /\ \A c \in Whitespace :
                      /\ SubSeq(fetchLog[j].message, 1, 1) # c
                      /\ SubSeq(fetchLog[j].message, Len(fetchLog[j].message),
                                Len(fetchLog[j].message)) # c)
    /\ [][fetchLog' # fetchLog =>
            /\ SendStep
            /\ ~Blank(inputValue)
            /\ ~isTyping
            /\ Len(fetchLog') = Len(fetchLog) + 1
            /\ SubSeq(fetchLog', 1, Len(fetchLog)) = fetchLog
            /\ Last(fetchLog').sessionId = sessionId
            /\ Last(fetchLog').sessionId = StoredSession
            /\ Last(fetchLog').message = Last(messages').content
            /\ Last(messages').type = "user"]_vars

\* C12 witness: the input " Hi " was sent: one user message, one request,
\* carrying "Hi" and the widget's session identifier; the request has
\* settled since.
C12_Witness ==
    /\ Len(fetchLog) = 1
    /\ Len(UserMessages) = 1
    /\ fetchLog[1].message = "Hi"
    /\ fetchLog[1].sessionId # ""
    /\ requests = <<>>

\* the ids whose reveal starts in this step
RevealStarted == DOMAIN typingMessages' \ DOMAIN typingMessages

\* C13: the reveal strategy of a bot message is selected by the viewport
\* width current when its reveal starts: at most 768 gives the simple
\* strategy (entry created complete, all characters visible, no timed step),
\* above 768 the chunked strategy (entry created incomplete with a first
\* timed step pending); also when the viewport was resized between the send
\* and the arrival of the response.
C13_StrategyByCurrentWidth ==
    [][\A id \in RevealStarted :
          LET e == typingMessages'[id]
              pending == \E i \in 1..Len(timers') : timers'[i].messageId = id
          IN  IF windowWidth <= 768
              THEN /\ e.isComplete
                   /\ e.visibleChars = Len(e.text)
                   /\ ~pending
              ELSE /\ "totalChunks" \in DOMAIN e
                   /\ ~e.isComplete
                   /\ e.visibleChars = 0
                   /\ pending]_vars

\* C14: every reveal-state entry, once created for a message id, stays the
\* one entry of that id, and its completion flag never reverts from true to
\* false (so it goes from false to true at most once).
C14_CompleteNeverReverts ==
    [][\A id \in DOMAIN typingMessages :
          /\ id \in DOMAIN typingMessages'
          /\ typingMessages[id].isComplete => typingMessages'[id].isComplete]_vars

\* C15: the transcript is append-only: every step leaves the previous
\* transcript as a prefix of the new one (no message is removed, reordered
\* or changed).
C15_TranscriptAppendOnly ==
    [][/\ Len(messages') >= Len(messages)
       /\ SubSeq(messages', 1, Len(messages)) = messages]_vars

\* C15 witness: welcome, user message and a long answer are in the
\* transcript after the answer was revealed step by step, feedback was given
\* and the widget was minimized again.
C15_Witness ==
    /\ Len(messages) = 3
    /\ messages[1].content = welcomeMessage
    /\ messages[2].type = "user"
    /\ messages[3].content = LongText
    /\ messageFeedback # EmptyMap
    /\ timers = <<>>
    /\ isMinimized

\* some reveal-state entry is not marked complete
Revealing == \E id \in DOMAIN typingMessages : ~typingMessages[id].isComplete

\* C16: every reveal that has started eventually has its entry marked
\* complete, timers firing fairly, whatever toggles, resizes and sends happen
\* meanwhile: from every state with an incomplete entry a state is reached
\* in which every entry, that one included (entries are never removed), is
\* complete.  No step cancels a pending reveal timer: a timer goes away only
\* in the step that marks its entry complete.
C16_RevealCompletes ==
    /\ Revealing ~> ~Revealing
    /\ [][DOMAIN typingMessages \subseteq DOMAIN typingMessages']_vars
    /\ [][\A i \in 1..Len(timers) :
             \/ \E j \in 1..Len(timers') : timers'[j].messageId = timers[i].messageId
             \/ typingMessages'[timers[i].messageId].isComplete]_vars

\* C16 witness: a chunked reveal that was in progress while the widget got
\* minimized has completed with all of its text visible.
C16_Witness ==
    /\ isMinimized
    /\ timers = <<>>
    /\ \E id \in ChunkedIds :
          /\ typingMessages[id].text = LongText
          /\ typingMessages[id].currentChunk = 2
          /\ typingMessages[id].isComplete
          /\ typingMessages[id].visibleChars = Len(LongText)

\* positions of the transcript that hold a welcome message
WelcomePositions ==
    { k \in 1..Len(messages) :
        \/ messages[k].content = welcomeMessage
        \/ /\ Len(messages[k].id) >= 8
           /\ SubSeq(messages[k].id, 1, 8) = "welcome-" }

\* C17: the welcome message is created exactly once, by the step that first
\* expands the widget (the transcript being empty): it heads the transcript,
\* is of type bot and has a reveal-state entry; the transcript is never
\* empty while the widget is expanded; afterwards no step adds another
\* welcome message, replaces the first message or restarts its reveal.
C17_WelcomeOnce ==
    /\ [](/\ ~isMinimized => messages # <<>>
          /\ messages # <<>> =>
                /\ WelcomePositions = {1}
                /\ messages[1].type = "bot"
                /\ messages[1].content = welcomeMessage
                /\ messages[1].id \in DOMAIN typingMessages
                /\ typingMessages[messages[1].id].text = welcomeMessage)
    /\ [][(messages = <<>> /\ messages' # <<>>) =>
             /\ isMinimized
             /\ ~isMinimized'
             /\ Len(messages') = 1]_vars
    /\ [][messages # <<>> =>
             /\ messages' # <<>>
             /\ messages'[1] = messages[1]
             /\ typingMessages'[messages[1].id].visibleChars
                   >= typingMessages[messages[1].id].visibleChars]_vars

\* C17 witness: the welcome message, revealed in chunks on a wide viewport,
\* still is the only welcome message after a send, its answer, a resize to a
\* narrow viewport, and with the widget expanded.
C17_Witness ==
    /\ Len(messages) = 3
    /\ WelcomePositions = {1}
    /\ "totalChunks" \in DOMAIN typingMessages[messages[1].id]
    /\ typingMessages[messages[1].id].isComplete
    /\ windowWidth = 768
    /\ ~isMinimized

\* a step that is a header click
ToggleStep == ToggleMinimize

\* C18: the widget is minimized as constructed (before its mount effects
\* have run, no click having been handled); each header click flips the minimized
\* flag and nothing but a header click changes it; a header click leaves
\* feedback, typing flag, input value, session identifier, storage and
\* viewport width unchanged, and leaves transcript, reveal states and timers
\* unchanged too, except that the first expansion (empty transcript) creates
\* the welcome message and its reveal-state entry.
C18_ToggleFrame ==
    /\ [](~mounted => isMinimized)
    /\ [][isMinimized' # isMinimized => ToggleStep]_vars
    /\ [][ToggleStep =>
             /\ isMinimized' = ~isMinimized
             /\ UNCHANGED << messageFeedback, isTyping, inputValue, sessionId,
                             localStorage, windowWidth, requests, fetchLog >>
             /\ IF messages = <<>>
                THEN /\ Len(messages') = 1
                     /\ messages'[1].content = welcomeMessage
                     /\ DOMAIN typingMessages' = {messages'[1].id}
                ELSE UNCHANGED << messages, typingMessages, timers >>]_vars

\* C18 witness: the widget was minimized by a header click while a request
\* was in flight and new input was typed already.
C18_Witness ==
    /\ isMinimized
    /\ isTyping
    /\ inputValue = " Hi "
    /\ Len(messages) = 2

\* C19: once the widget has been opened the transcript is the welcome
\* message followed by strictly alternating user and bot messages (user at
\* the even positions, bot at the odd ones), so no two user messages are
\* adjacent and every user message whose request has settled is followed by
\* exactly one bot message before the next user message; the transcript
\* ends with a user message exactly when a request is in flight.
C19_Alternation ==
    /\ mounted /\ ~isMinimized => messages # <<>>
    /\ messages # <<>> =>
          /\ messages[1].type = "bot"
          /\ messages[1].content = welcomeMessage
          /\ \A k \in 2..Len(messages) :
                messages[k].type = (IF k % 2 = 0 THEN "user" ELSE "bot")
          /\ Last(messages).type = "user" <=> requests # <<>>
    /\ messages = <<>> => requests = <<>>

\* C19 witness: welcome, user message, and the single bot message that
\* followed it once the request had settled.
C19_Witness ==
    /\ Len(messages) = 3
    /\ messages[2].type = "user"
    /\ messages[3].type = "bot"
    /\ messages[3].content \in {errorMessage, "Yes."}
    /\ requests = <<>>
    /\ fetchLog # <<>>

\* C20: once the mount effects have run, the in-memory session identifier
\* is non-empty and equal to the value stored under the session storage key,
\* in every reachable state.
C20_SessionMatchesStorage ==
    mounted =>
        /\ sessionId # ""
        /\ SESSION_ID_KEY \in DOMAIN localStorage
        /\ localStorage[SESSION_ID_KEY] = sessionId

\* C20 witness: the widget generated its session identifier on mount, sent
\* it with a request, and has adopted the identifier "s0" of the response,
\* in memory and in storage.
C20_Witness ==
    /\ mounted
    /\ fetchLog # <<>>
    /\ fetchLog[1].sessionId = "session_0_k3x9f"
    /\ sessionId = "s0"
    /\ StoredSession = "s0"

\* C21: a reveal step changes only the reveal-state entry of its own message
\* id and leaves every other entry unchanged; and the last step of a reveal
\* leaves the entry of its id holding that reveal's own text, all of it
\* visible, and marked complete, whatever other reveals are in progress and
\* however their timer callbacks interleave.
C21_IndependentReveals ==
    [][\A i \in 1..Len(timers) :
          RevealNextChunk(i) =>
              /\ \A id \in DOMAIN typingMessages \ {timers[i].messageId} :
                    /\ id \in DOMAIN typingMessages'
                    /\ typingMessages'[id] = typingMessages[id]
              /\ timers[i].currentChunk + 1 = timers[i].numberOfChunks =>
                    LET e == typingMessages'[timers[i].messageId] IN
                    /\ e.text = timers[i].fullText
                    /\ e.visibleChars = Len(timers[i].fullText)
                    /\ e.isComplete]_vars

\* the stored conversational context ("" : none stored)
StoredContext == GetItem(CONTEXT_KEY)

\* the JSON text of the context object the server returns in this model
FlybusContextJson ==
    "{\"lastTopic\":\"flybus\",\"flightTime\":null,\"flightDestination\":null,\"lastServiceType\":null,\"isGroupBooking\":false,\"groupDetails\":null,\"lastQuery\":\"Hi\"}"

\* C22: a failed request changes neither the in-memory session identifier
\* nor the stored session identifier nor the stored context; the stored
\* context changes only in a step in which a successful response carrying a
\* context object arrives, and is then the serialisation of that object.
C22_FailureFrame ==
    /\ [][FailureStep =>
             /\ sessionId' = sessionId
             /\ StoredSession' = StoredSession
             /\ StoredContext' = StoredContext
             /\ localStorage' = localStorage]_vars
    /\ [][StoredContext' # StoredContext =>
             /\ \E i \in 1..Len(requests), data \in Responses :
                   /\ RequestSucceeds(i, data)
                   /\ "context" \in DOMAIN data
                   /\ data.context.lastTopic = <<"flybus">>
                   /\ data.context.lastQuery = <<"Hi">>
             /\ StoredContext' = FlybusContextJson]_vars

\* C22 witness: a context and the session identifier "s1" were stored by an
\* earlier successful response; the request of the current instance has
\* failed, and both are still there.
C22_Witness ==
    /\ Len(fetchLog) = 1
    /\ requests = <<>>
    /\ Last(messages).content = errorMessage
    /\ StoredContext = FlybusContextJson
    /\ sessionId = "s1"
    /\ StoredSession = "s1"

\* C23: every id with a feedback record is the id of a bot message of the
\* transcript that is feedback-eligible (not the welcome message, not the
\* apology, at least 50 characters), and every message with that id is a
\* bot message whose reveal-state entry exists and is marked complete.
C23_FeedbackOnlyForEligible ==
    \A id \in DOMAIN messageFeedback :
        /\ \E k \in 1..Len(messages) :
              /\ messages[k].id = id
              /\ messages[k].type = "bot"
              /\ messages[k].content # welcomeMessage
              /\ messages[k].content # errorMessage
              /\ Len(messages[k].content) >= 50
        /\ \A k \in 1..Len(messages) :
              messages[k].id = id =>
                  /\ messages[k].type = "bot"
                  /\ id \in DOMAIN typingMessages
                  /\ typingMessages[id].isComplete

====
